---- MODULE Spec2Model ----
(***************************************************************************)
(* MathLiveMultilineEditor (src/src/components/MathLiveDemo.tsx, 121-442): *)
(* a React component that keeps an imperative pool of math-field widgets   *)
(* (fieldRefsRef) reconciled against the declarative list `equations`.     *)
(*                                                                         *)
(* Scheduling: state updates are queued by the handlers and applied by a   *)
(* render (Render); the three useEffect bodies run after the commit, in    *)
(* source order and without anything in between.  An update made inside a  *)
(* native input/keydown listener is rendered, and its effects run, before  *)
(* any other task (phase "pre", "post"); an update made inside an effect,  *)
(* or by the host, is rendered in a later task, so user events and timers  *)
(* may run before that render and between its commit and its effects.      *)
(* Every task (listener, timer, render, flush of effects) ends by          *)
(* returning to the event loop (TaskEnd).                                  *)
(***************************************************************************)
EXTENDS Integers, Sequences, FiniteSets, TLC

\* ---------------------------------------------------------------- bounds
MaxLen == 3
MaxTimers == 1
\* pending focus callbacks of keydownHandler
MaxFocusTimers == 2
\* validateWork calls awaiting a response
MaxRequests == 2

\* ---------------------------------------------------------------- values
\* the value JavaScript yields for a hole or an out-of-range element
UNDEF == "<undefined>"
\* what a user can make a widget hold: blank, plain text, text with a macro
Typed == {"", "a", "m"}
\* the same without macros
Plain == {"", "a"}
\* lists a host can supply as initialEquations
HostLists == {<<>>, <<"", "a">>, <<"a", "", "a">>}
\* values of the prop minLines (the default is 1)
MinLinesChoices == {0, 1}
Ids == 1..MaxLen

Max2(a, b) == IF a >= b THEN a ELSE b
Min2(a, b) == IF a <= b THEN a ELSE b

\* mathField.getValue('latex-expanded'): macros are replaced by their
\* definition; the macro "m" is defined as "a"
Expanded(v) == IF v = "m" THEN "a" ELSE v

\* mutant of Normalise: the list is taken as it is
NormaliseKeep(init) == init

\* initialEquations.length > 0 ? initialEquations : ['']
Normalise(init) == IF Len(init) > 0 THEN init ELSE <<"">>

\* newEquations[index] = value   (index is 0-based; writing past the end
\* lengthens the array and leaves holes)
SetAt(prev, index, value) ==
  [k \in 1..Max2(Len(prev), index + 1) |->
     IF k = index + 1 THEN value
     ELSE IF k <= Len(prev) THEN prev[k] ELSE UNDEF]

\* mutant of Splice: splice(index, 0, '')
SpliceAtIndex(prev, index) ==
  LET at == Min2(index, Len(prev))
  IN  SubSeq(prev, 1, at) \o <<"">> \o SubSeq(prev, at + 1, Len(prev))

\* newEquations.splice(index + 1, 0, '')   (a start past the end appends)
Splice(prev, index) ==
  LET at == Min2(index + 1, Len(prev))
  IN  SubSeq(prev, 1, at) \o <<"">> \o SubSeq(prev, at + 1, Len(prev))

\* mutant of Filter: prev.filter((_, i) => i !== index + 1)
FilterNext(prev, index) ==
  IF index + 2 \in 1..Len(prev)
    THEN SubSeq(prev, 1, index + 1) \o SubSeq(prev, index + 3, Len(prev))
    ELSE prev

\* prev.filter((_, i) => i !== index)
Filter(prev, index) ==
  IF index + 1 \in 1..Len(prev)
    THEN SubSeq(prev, 1, index) \o SubSeq(prev, index + 2, Len(prev))
    ELSE prev

\* ---------------------------------------------------------------- state
VARIABLES
  equations,         \* useState: the committed expression list
  initialEquations,  \* <<[list, own]>>: the prop of the last commit (own: it
                     \* is a list this editor gave to onChange), until the
                     \* effect keyed on it has run; <<>> when none will read it
  minLines,          \* the prop minLines
  queue,             \* setEquations calls not yet rendered
  effects,           \* effect bodies of the last commit that have not run yet
  phase,             \* "idle": between tasks; "pre", "post": a listener's
                     \* update is being flushed (before, after its render);
                     \* "flush": the effects of a later-task commit are running;
                     \* "done": the task has nothing left to do
  pool,              \* fieldRefsRef.current: key -> MathFieldRef
  guard,             \* isUpdatingFromInputRef.current
  guardTimers,       \* pending setTimeout(.., 0) of updateEquation
  focusTimers,       \* pending setTimeout(.., 50) of keydownHandler, in order
  focused,           \* id of the widget holding focus, 0 when none
  active,            \* ids of the widgets whose wrapper has the active colours
  opening,           \* ids of the widgets whose isKeyboardOpening is true
  kbTasks,           \* pending requestAnimationFrame / setTimeout(.., 100)
                     \* callbacks of the virtual-keyboard-toggle listeners
  mounted,           \* the editor is mounted
  page,              \* the validating host page: its work list, refs, timer,
                     \* requests in flight and answer feedback (SpecValidation)
  supplied,          \* <<[list, again]>>: the prop initialEquations while it
                     \* is a list the host set by itself (again: the host set
                     \* the same list a second time); followed under SpecHost
  hist               \* what the last step did (history, read by properties)

vars == <<equations, initialEquations, minLines, queue, effects,
          phase, pool, guard, guardTimers, focusTimers, focused, supplied,
          active, opening, kbTasks, mounted, page, hist>>

\* queued setEquations calls
UpdOf(index, value) == [kind |-> "update", index |-> index, value |-> value, list |-> <<>>]
InsOf(index) == [kind |-> "insert", index |-> index, value |-> "", list |-> <<>>]
RemOf(index) == [kind |-> "remove", index |-> index, value |-> "", list |-> <<>>]
\* setEquations(list) of the effect keyed on initialEquations; own: the prop
\* was a list this editor had given to onChange
SetOf(list, own) ==
  [kind |-> IF own THEN "echo" ELSE "set", index |-> 0, value |-> "", list |-> list]
\* the prop initialEquations as a commit leaves it for its effect
PropOf(list, own) == <<[list |-> list, own |-> own]>>

\* mutant of ApplyUpd: setEquations(prev => [...prev, ...list].slice(0, MaxLen))
ApplyUpdConcat(u, prev) ==
  CASE u.kind = "update" -> SetAt(prev, u.index, u.value)
    [] u.kind = "insert" -> Splice(prev, u.index)
    [] u.kind = "remove" -> Filter(prev, u.index)
    [] OTHER -> SubSeq(prev \o u.list, 1, Min2(Len(prev) + Len(u.list), MaxLen))

\* the state an updater returns for the state prev
ApplyUpd(u, prev) ==
  CASE u.kind = "update" -> SetAt(prev, u.index, u.value)
    [] u.kind = "insert" -> Splice(prev, u.index)
    [] u.kind = "remove" -> Filter(prev, u.index)
    [] OTHER -> u.list

\* the queue applied in order: one record per update, with the state it saw
RECURSIVE Applied(_, _)
Applied(q, st) ==
  IF q = <<>> THEN <<>>
  ELSE LET r == ApplyUpd(Head(q), st)
       IN  <<[upd |-> Head(q), prev |-> st, result |-> r]>> \o Applied(Tail(q), r)

FinalOf(tr, st) == IF tr = <<>> THEN st ELSE tr[Len(tr)].result

\* the lists handed to onChange, in call order (a plain set emits nothing)
Emitted(tr) ==
  SelectSeq(tr, LAMBDA e : e.upd.kind \in {"update", "insert", "remove"})

Keys == DOMAIN pool
\* hist (history, read by the properties only)
\*   step     the step taken last
\*   ev, idx  the listener whose update is being flushed, and its widget's key
\*   q0, ft0  the queue and the focus tasks the listener found
\*   applied  the updaters the last render ran, each with the list it saw
\*   calls    the lists the last render handed to onChange, in call order
\*   pool0    the pool the reconciliation pass started from
Blank(step) ==
  [step |-> step, ev |-> "", idx |-> 0, q0 |-> <<>>, ft0 |-> <<>>,
   applied |-> <<>>, calls |-> <<>>, pool0 |-> <<>>]
EventOf(ev, k) ==
  [Blank("Event") EXCEPT !.ev = ev, !.idx = k, !.q0 = queue, !.ft0 = focusTimers]

\* ------------------------------------------------------ validating host
\* SubstitutionProblemWithValidation (and the page of part_007, which has the
\* same validateWork and handleWorkChange).  A line is "" (blank), "s" (a
\* step) or "A" (a line that reads as a final answer: it has 'x =' and 'y =').
WorkLists ==
  {<<"">>, <<"s">>, <<"A">>, <<"s", "">>, <<"s", "s">>, <<"s", "A">>}

\* lines.filter(line => line.trim().length > 0)
NonEmpty(lines) == SelectSeq(lines, LAMBDA l : l # "")

\* lastLinePlain.includes('x =') && lastLinePlain.includes('y =')
LooksFinal(lines) == lines # <<>> /\ lines[Len(lines)] = "A"

\* useState / useRef initial values of the page
InitialHost ==
  [work |-> <<"">>,            \* work
   inProgress |-> FALSE,       \* isValidationInProgressRef.current
   newLineAdded |-> FALSE,     \* newLineAddedRef.current
   timer |-> <<>>,             \* newLineValidationTimeoutRef: <<lines>> pending
   requests |-> <<>>,          \* validateWork calls awaiting a response
   feedback |-> <<>>,          \* answerFeedback / isAnswerCorrect: <<>> is
                               \* null, <<lines>> the work they were given for
   last |-> ""]                \* what the last step did (history)

\* mutant of ValidateWork: isValidationInProgressRef is not read
ValidateWorkUnchecked(h, lines, force, tooSoon) ==
  IF NonEmpty(lines) = <<>> THEN [h EXCEPT !.last = "empty"]
  ELSE IF tooSoon THEN [h EXCEPT !.last = "soon"]
  ELSE IF ~force /\ ~h.newLineAdded THEN [h EXCEPT !.last = "unforced"]
  ELSE [h EXCEPT !.inProgress = TRUE,
                 !.newLineAdded = FALSE,
                 !.requests = Append(@, [lines |-> NonEmpty(lines),
                                         stage |-> "problem"]),
                 !.last = "sent"]

\* validateWork(lines, force) up to its first await; tooSoon: less than
\* MIN_TIME_BETWEEN_VALIDATIONS has passed on the clock of Date.now()
ValidateWork(h, lines, force, tooSoon) ==
  IF NonEmpty(lines) = <<>> THEN [h EXCEPT !.last = "empty"]
  ELSE IF h.inProgress THEN [h EXCEPT !.last = "busy"]
  ELSE IF tooSoon THEN [h EXCEPT !.last = "soon"]
  ELSE IF ~force /\ ~h.newLineAdded THEN [h EXCEPT !.last = "unforced"]
  ELSE [h EXCEPT !.inProgress = TRUE,
                 !.newLineAdded = FALSE,
                 !.requests = Append(@, [lines |-> NonEmpty(lines),
                                         stage |-> "problem"]),
                 !.last = "sent"]

\* ---------------------------------------------------------------- mount
Init ==
  /\ minLines \in MinLinesChoices
  /\ \E v \in HostLists : /\ initialEquations = PropOf(v, FALSE)
                         /\ equations = Normalise(v)
  /\ queue = <<>>
  /\ effects = {"reconcile", "valueSync", "initSync"}
  /\ phase = "idle"
  /\ pool = <<>>
  /\ guard = FALSE
  /\ guardTimers = 0
  /\ focusTimers = <<>>
  /\ focused = 0
  /\ supplied = <<>>
  /\ active = {}
  /\ opening = {}
  /\ kbTasks = <<>>
  /\ mounted = TRUE
  /\ page = InitialHost
  /\ hist = Blank("Mount")

\* ---------------------------------------------------------------- handlers
\* the list the pending updates lead to (only used to bound the model)
PendingLen == Len(FinalOf(Applied(queue, equations), equations))

\* setTimeout(focus task, 50).  The deferred focus tasks never touch the list,
\* the pool or the guard, so the specification of the list and the pool
\* (Spec) leaves them out (track = FALSE) and SpecFocus keeps them.
Scheduled(track, task) ==
  IF track THEN Append(focusTimers, task) ELSE focusTimers
\* the two callbacks handed to setTimeout(.., 50), each with the currentIndex
\* its listener captured
AfterEnter(index) == [kind |-> "enter", index |-> index]
AfterBackspace(index) == [kind |-> "backspace", index |-> index]
\* mutants of TargetOf: the callback of Enter, of Backspace, looks up
\* currentIndex itself
TargetOfEnterSame(task) ==
  IF task.kind = "enter" THEN task.index
  ELSE IF task.index > 0 THEN task.index - 1 ELSE 0
TargetOfBackspaceSame(task) ==
  IF task.kind = "enter" THEN task.index + 1 ELSE task.index

\* the position a callback looks up when it runs: currentIndex + 1, or
\* currentIndex > 0 ? currentIndex - 1 : 0
TargetOf(task) ==
  IF task.kind = "enter" THEN task.index + 1
  ELSE IF task.index > 0 THEN task.index - 1 ELSE 0
Focus(track, id) == IF track THEN id ELSE focused

\* inputHandler -> updateEquation(fieldRef.index, getValue('latex-expanded'))
InputEvent(k, v, track) ==
  /\ phase = "idle"
  /\ k \in Keys
  /\ v # pool[k].value
  /\ guardTimers < MaxTimers
  /\ pool' = [pool EXCEPT ![k].value = v]
  /\ guard' = TRUE
  /\ queue' = Append(queue, UpdOf(pool[k].index, Expanded(v)))
  /\ guardTimers' = guardTimers + 1
  /\ phase' = "pre"
  /\ focused' = Focus(track, pool[k].id)
  /\ hist' = EventOf("Input", k)
  /\ UNCHANGED <<equations, initialEquations, minLines, supplied, active,
                 opening, kbTasks, mounted, effects, focusTimers, page>>

\* keydownHandler, key Enter; mod: Shift, Ctrl or Meta is held
EnterKey(k, mod, track) ==
  /\ phase = "idle"
  /\ k \in Keys
  /\ focused' = Focus(track, pool[k].id)
  /\ IF ~mod
       THEN /\ PendingLen < MaxLen
            /\ Len(focusTimers) < MaxFocusTimers
            /\ queue' = Append(queue, InsOf(pool[k].index))
            /\ focusTimers' = Scheduled(track, AfterEnter(pool[k].index))
            /\ phase' = "pre"
            /\ hist' = EventOf("Enter", k)
       ELSE /\ UNCHANGED <<queue, focusTimers>>
            /\ phase' = "done"
            /\ hist' = EventOf("EnterModified", 0)
  /\ UNCHANGED <<equations, initialEquations, minLines, supplied, active,
                 opening, kbTasks, mounted, effects, pool, guard, guardTimers,
                 page>>

\* mutants of Intercepts: the floor test is missing / counts lines from 1
InterceptsNoFloor(w) == w.value = ""
InterceptsOneBased(w) == w.value = "" /\ w.index + 1 >= minLines

\* evt.key === 'Backspace' && mathField.value === '' && currentIndex >= minLines
Intercepts(w) == w.value = "" /\ w.index >= minLines

\* keydownHandler, key Backspace; removeEquation is the callback of the render
\* whose effect created the widget, so its test equations.length <= minLines
\* has the outcome it had in that render (lenBlocked)
BackspaceKey(k, track) ==
  /\ phase = "idle"
  /\ k \in Keys
  /\ focused' = Focus(track, pool[k].id)
  /\ IF Intercepts(pool[k])
       THEN /\ Len(focusTimers) < MaxFocusTimers
            /\ focusTimers' = Scheduled(track, AfterBackspace(pool[k].index))
            /\ IF pool[k].lenBlocked
                 THEN /\ UNCHANGED queue
                      /\ phase' = "done"
                      /\ hist' = EventOf("BackspaceBlocked", k)
                 ELSE /\ queue' = Append(queue, RemOf(pool[k].index))
                      /\ phase' = "pre"
                      /\ hist' = EventOf("Backspace", k)
       ELSE /\ UNCHANGED <<queue, focusTimers>>
            /\ phase' = "done"
            /\ hist' = EventOf(IF pool[k].value = "" THEN "BackspaceFloor"
                                ELSE "BackspaceNonEmpty", 0)
  /\ UNCHANGED <<equations, initialEquations, minLines, supplied, active,
                 opening, kbTasks, mounted, effects, pool, guard, guardTimers,
                 page>>

\* mutant of ClearGuard: the callback does not write the flag
ClearGuardKeep ==
  /\ phase = "idle"
  /\ guardTimers > 0
  /\ guard' = guard
  /\ guardTimers' = guardTimers - 1
  /\ phase' = "done"
  /\ hist' = Blank("ClearGuard")
  /\ UNCHANGED <<equations, initialEquations, minLines, supplied, active,
                 opening, kbTasks, mounted, queue, effects, pool, focusTimers,
                 focused, page>>

\* setTimeout(() => { isUpdatingFromInputRef.current = false }, 0)
ClearGuard ==
  /\ phase = "idle"
  /\ guardTimers > 0
  /\ guard' = FALSE
  /\ guardTimers' = guardTimers - 1
  /\ phase' = "done"
  /\ hist' = Blank("ClearGuard")
  /\ UNCHANGED <<equations, initialEquations, minLines, supplied, active,
                 opening, kbTasks, mounted, queue, effects, pool, focusTimers,
                 focused, page>>

\* mutant of FocusTimer: the callback is not deferred, it runs in the
\* listener right after insertEquation / removeEquation
FocusTimerEarly ==
  /\ phase \in {"idle", "pre"}
  /\ focusTimers # <<>>
  /\ focusTimers' = Tail(focusTimers)
  /\ focused' = IF TargetOf(Head(focusTimers)) \in Keys /\ mounted
                  THEN pool[TargetOf(Head(focusTimers))].id ELSE focused
  /\ phase' = "done"
  /\ hist' = [Blank("FocusTimer") EXCEPT !.ev = Head(focusTimers).kind,
                                         !.idx = Head(focusTimers).index]
  /\ UNCHANGED <<equations, initialEquations, minLines, queue, effects, pool,
                 guard, guardTimers, supplied, active, opening, kbTasks,
                 mounted, page>>

\* mutant of FocusTimer: without a record at the target position the last
\* line of the pool is focused
FocusTimerFallback ==
  /\ phase = "idle"
  /\ focusTimers # <<>>
  /\ focusTimers' = Tail(focusTimers)
  /\ focused' = IF TargetOf(Head(focusTimers)) \in Keys /\ mounted
                  THEN pool[TargetOf(Head(focusTimers))].id
                  ELSE IF Keys # {} THEN pool[Cardinality(Keys) - 1].id
                  ELSE focused
  /\ phase' = "done"
  /\ hist' = [Blank("FocusTimer") EXCEPT !.ev = Head(focusTimers).kind,
                                         !.idx = Head(focusTimers).index]
  /\ UNCHANGED <<equations, initialEquations, minLines, queue, effects, pool,
                 guard, guardTimers, supplied, active, opening, kbTasks,
                 mounted, page>>

\* setTimeout(() => { fieldRefsRef.current.get(target)?.element.focus() }, 50)
FocusTimer ==
  /\ phase = "idle"
  /\ focusTimers # <<>>
  /\ focusTimers' = Tail(focusTimers)
  /\ focused' = IF TargetOf(Head(focusTimers)) \in Keys /\ mounted
                  THEN pool[TargetOf(Head(focusTimers))].id ELSE focused
  /\ phase' = "done"
  /\ hist' = [Blank("FocusTimer") EXCEPT !.ev = Head(focusTimers).kind,
                                         !.idx = Head(focusTimers).index]
  /\ UNCHANGED <<equations, initialEquations, minLines, supplied, active,
                 opening, kbTasks, mounted, queue, effects, pool, guard,
                 guardTimers, page>>

\* ------------------------------------------------- focus, blur, keyboard
\* blurHandler of the widget id: nothing while its isKeyboardOpening is set,
\* else the wrapper gets the inactive colours (id 0: no widget had focus)
Blurred(act, id) == IF id \in opening THEN act ELSE act \ {id}

\* mathField.focus(): the widget that had focus gets a blur event, the widget
\* id a focus event (focusHandler: the wrapper gets the active colours)
Focused(act, id) == IF focused = id THEN act \cup {id}
                    ELSE Blurred(act, focused) \cup {id}

\* the callbacks of one kind run in the order they were requested
FirstOfKind(n) == \A m \in 1..(n - 1) : kbTasks[m].kind # kbTasks[n].kind
Without(seq, n) == SubSeq(seq, 1, n - 1) \o SubSeq(seq, n + 1, Len(seq))

\* the user clicks into the line k
Click(k) ==
  /\ phase = "idle"
  /\ effects = {}
  /\ k \in Keys
  /\ focused # pool[k].id
  /\ active' = Focused(active, pool[k].id)
  /\ focused' = pool[k].id
  /\ phase' = "done"
  /\ hist' = [Blank("Click") EXCEPT !.idx = k]
  /\ UNCHANGED <<equations, initialEquations, minLines, queue, effects, pool,
                 guard, guardTimers, focusTimers, supplied, opening, kbTasks,
                 mounted, page>>

\* the widget that has focus loses it (a click outside, the overlay taking
\* the focus)
BlurEvent ==
  /\ phase = "idle"
  /\ effects = {}
  /\ focused # 0
  /\ active' = Blurred(active, focused)
  /\ focused' = 0
  /\ phase' = "done"
  /\ hist' = Blank("Blur")
  /\ UNCHANGED <<equations, initialEquations, minLines, queue, effects, pool,
                 guard, guardTimers, focusTimers, supplied, opening, kbTasks,
                 mounted, page>>

\* 'virtual-keyboard-toggle' on the line k; visible: evt.detail.isVisible
KeyboardToggle(k, visible) ==
  /\ phase = "idle"
  /\ effects = {}
  /\ k \in Keys
  /\ visible => Len(kbTasks) <= MaxTimers
  /\ opening' = IF visible THEN opening \cup {pool[k].id}
                 ELSE opening \ {pool[k].id}
  /\ kbTasks' = IF visible
                   THEN Append(kbTasks, [kind |-> "frame", id |-> pool[k].id])
                   ELSE kbTasks
  /\ phase' = "done"
  /\ hist' = [Blank("KeyboardToggle") EXCEPT
               !.ev = IF visible THEN "visible" ELSE "hidden", !.idx = k]
  /\ UNCHANGED <<equations, initialEquations, minLines, queue, effects, pool,
                 guard, guardTimers, focusTimers, focused, supplied, active,
                 mounted, page>>

\* mousedown on the keyboard toggle control of the line k
ToggleMouseDown(k) ==
  /\ phase = "idle"
  /\ effects = {}
  /\ k \in Keys
  /\ active' = Focused(active, pool[k].id)
  /\ focused' = pool[k].id
  /\ opening' = opening \cup {pool[k].id}
  /\ phase' = "done"
  /\ hist' = [Blank("ToggleMouseDown") EXCEPT !.idx = k]
  /\ UNCHANGED <<equations, initialEquations, minLines, queue, effects, pool,
                 guard, guardTimers, focusTimers, supplied, kbTasks, mounted,
                 page>>

\* requestAnimationFrame(() => { mathField.focus(); setTimeout(.., 100) })
AnimationFrame(n) ==
  /\ phase = "idle"
  /\ n \in 1..Len(kbTasks)
  /\ kbTasks[n].kind = "frame"
  /\ FirstOfKind(n)
  /\ active' = IF mounted THEN Focused(active, kbTasks[n].id) ELSE active
  /\ focused' = IF mounted THEN kbTasks[n].id ELSE focused
  /\ kbTasks' = Append(Without(kbTasks, n),
                        [kind |-> "clear", id |-> kbTasks[n].id])
  /\ phase' = "done"
  /\ hist' = Blank("AnimationFrame")
  /\ UNCHANGED <<equations, initialEquations, minLines, queue, effects, pool,
                 guard, guardTimers, focusTimers, supplied, opening, mounted,
                 page>>

\* setTimeout(() => { isKeyboardOpening = false }, 100)
ClearOpening(n) ==
  /\ phase = "idle"
  /\ n \in 1..Len(kbTasks)
  /\ kbTasks[n].kind = "clear"
  /\ FirstOfKind(n)
  /\ opening' = opening \ {kbTasks[n].id}
  /\ kbTasks' = Without(kbTasks, n)
  /\ phase' = "done"
  /\ hist' = Blank("ClearOpening")
  /\ UNCHANGED <<equations, initialEquations, minLines, queue, effects, pool,
                 guard, guardTimers, focusTimers, focused, supplied, active,
                 mounted, page>>

\* React unmounts the editor: the container <div> leaves the document, and
\* with it the focus; state updates and effects of the editor are dropped.
\* No effect of the editor returns a cleanup function: fieldRefsRef, the
\* listeners and the pending timers stay as they are.  focus() on a widget
\* that is not in the document moves no focus.
Unmount ==
  /\ phase = "idle"
  /\ mounted
  /\ mounted' = FALSE
  /\ queue' = <<>>
  /\ effects' = {}
  /\ initialEquations' = <<>>
  /\ focused' = 0
  /\ phase' = "done"
  /\ hist' = Blank("Unmount")
  /\ UNCHANGED <<equations, minLines, pool, guard, guardTimers, focusTimers,
                 supplied, active, opening, kbTasks, page>>

\* ------------------------------------------------ validating host: steps
\* the state of the editor
editorVars ==
  <<equations, initialEquations, minLines, queue, effects, phase, pool, guard,
    guardTimers, focusTimers, focused, supplied, active, opening, kbTasks,
    mounted, hist>>

\* handleWorkChange(newWork)
HandleWorkChange(newWork) ==
  /\ newWork # page.work
  /\ LET previousLength == Len(NonEmpty(page.work))
         newLength == Len(NonEmpty(newWork))
     IN  page' = [page EXCEPT
                    !.work = newWork,
                    !.feedback = <<>>,
                    !.newLineAdded = newLength > previousLength,
                    !.timer = IF newLength < previousLength THEN <<>>
                              ELSE IF newLength > previousLength
                                THEN <<newWork>>
                              ELSE @,
                    !.last = "change"]
  /\ UNCHANGED editorVars

\* setTimeout(() => { validateWork(newWork, true); ref = null }, delay)
ValidationTimer(tooSoon) ==
  /\ page.timer # <<>>
  /\ Len(page.requests) < MaxRequests
  /\ page' = [ValidateWork(page, page.timer[1], TRUE, tooSoon)
                EXCEPT !.timer = <<>>]
  /\ UNCHANGED editorVars

\* await validateProblem(..) settles (ok: it resolved): with a last line that
\* reads as an answer validateAnswer is awaited next, else the call ends
\* (catch, finally)
ProblemSettled(n, ok) ==
  /\ n \in 1..Len(page.requests)
  /\ page.requests[n].stage = "problem"
  /\ page' = IF ok /\ LooksFinal(page.requests[n].lines)
               THEN [page EXCEPT !.requests[n].stage = "answer",
                                 !.last = "validated"]
               ELSE [page EXCEPT !.requests = Without(@, n),
                                 !.inProgress = FALSE,
                                 !.last = IF ok THEN "validated" ELSE "threw"]
  /\ UNCHANGED editorVars

\* await validateAnswer(..) settles: setIsAnswerCorrect, setAnswerFeedback
\* when it resolved; then finally
AnswerSettled(n, ok) ==
  /\ n \in 1..Len(page.requests)
  /\ page.requests[n].stage = "answer"
  /\ page' = [page EXCEPT
                !.requests = Without(@, n),
                !.inProgress = FALSE,
                !.feedback = IF ok THEN <<page.requests[n].lines>> ELSE @,
                !.last = IF ok THEN "answered" ELSE "threw"]
  /\ UNCHANGED editorVars

\* ---------------------------------------------------------------- render
\* the onChange calls of a render: one per run of an updater function.  React
\* runs an updater once; under <StrictMode> a development build may run it a
\* second time on the same list (twice)
RECURSIVE Calls(_, _)
Calls(em, twice) ==
  IF em = <<>> THEN <<>>
  ELSE (IF twice THEN <<Head(em).result, Head(em).result>>
                 ELSE <<Head(em).result>>) \o Calls(Tail(em), twice)

\* One render of the editor.  The queued updaters run in order; each updater
\* function calls onChange(result) and the host stores that list and hands it
\* back as initialEquations (onChange={setEquations}).  host is the prop when
\* the host itself has set a new list, <<>> otherwise.  Effects whose
\* dependencies changed are queued.
Commit(host, twice) ==
  /\ effects = {}
  /\ LET tr == Applied(queue, equations)
         newEq == FinalOf(tr, equations)
         em == Emitted(tr)
     IN  /\ equations' = newEq
         /\ initialEquations' =
              IF em # <<>> THEN PropOf(em[Len(em)].result, TRUE) ELSE host
         /\ effects' = (IF Len(newEq) # Len(equations) THEN {"reconcile"} ELSE {})
                       \cup (IF queue # <<>> THEN {"valueSync"} ELSE {})
                       \cup (IF em # <<>> \/ host # <<>> THEN {"initSync"} ELSE {})
         /\ hist' = [Blank(IF host # <<>> THEN "HostRender" ELSE "Render")
                       EXCEPT !.ev = IF phase = "pre" THEN hist.ev ELSE "",
                              !.applied = tr,
                              !.calls = Calls(em, twice)]
  /\ queue' = <<>>
  /\ UNCHANGED <<minLines, pool, guard, guardTimers, focusTimers, focused,
                 active, opening, kbTasks, mounted, page>>

\* the render React schedules for queued setEquations calls
Render ==
  /\ phase \in {"idle", "pre"}
  /\ queue # <<>>
  /\ Commit(<<>>, FALSE)
  /\ phase' = IF phase = "pre" THEN "post" ELSE "done"
  /\ UNCHANGED supplied

\* the same render when the editor is mounted under <StrictMode>
\* (whiteboard.tsx) in a development build
StrictRender(twice) ==
  /\ phase \in {"idle", "pre"}
  /\ queue # <<>>
  /\ Commit(<<>>, twice)
  /\ phase' = IF phase = "pre" THEN "post" ELSE "done"
  /\ UNCHANGED supplied

\* the host sets its list outside onChange and re-renders the editor
HostRender(v) ==
  /\ phase = "idle"
  /\ Commit(PropOf(v, FALSE), FALSE)
  /\ phase' = "done"
  /\ UNCHANGED supplied

\* the render of queued setEquations calls, the host's prop followed: a list
\* given to onChange replaces the list the host had set
RenderSupplied ==
  /\ phase \in {"idle", "pre"}
  /\ queue # <<>>
  /\ Commit(<<>>, FALSE)
  /\ phase' = IF phase = "pre" THEN "post" ELSE "done"
  /\ supplied' = IF Emitted(Applied(queue, equations)) # <<>> THEN <<>>
                  ELSE supplied

\* HostRender, the host's prop followed: the host sets the list v by itself;
\* it sets it again when the prop is already v and the editor has nothing
\* left to do for it
HostSupply(v) ==
  /\ phase = "idle"
  /\ Commit(PropOf(v, FALSE), FALSE)
  /\ phase' = "done"
  /\ supplied' = <<[list |-> v,
                    again |-> /\ supplied # <<>>
                              /\ supplied[1].list = v
                              /\ queue = <<>>]>>

\* ---------------------------------------------------------------- effects
\* all effect bodies of a commit run in one go (flush of passive effects):
\* before the render of a listener's update ("pre"), right after that render
\* ("post"), or in a task of their own ("flush")
AfterEffect(e) ==
  /\ phase \in {"idle", "pre", "post", "flush"}
  /\ effects' = effects \ {e}
  /\ phase' = IF phase = "pre" THEN "pre"
              ELSE IF effects \ {e} = {} THEN "done"
              ELSE IF phase = "post" THEN "post" ELSE "flush"

\* the history after an effect body: the listener whose update is being
\* flushed is kept until the value effect of its render has run, the
\* updaters of the render until the effect keyed on initialEquations has run
EffectHist(step) ==
  [Blank(step) EXCEPT
     !.ev = IF phase = "pre" \/ step = "Reconcile" THEN hist.ev ELSE "",
     !.applied = IF step = "InitSync" THEN <<>> ELSE hist.applied]

\* a task returns to the event loop; of the history, only the updaters of a
\* commit whose effects have not run yet are kept
TaskEnd ==
  /\ phase = "done"
  /\ phase' = "idle"
  /\ hist' = [Blank("Idle") EXCEPT
               !.applied = IF effects # {} THEN hist.applied ELSE <<>>]
  /\ UNCHANGED <<equations, initialEquations, minLines, supplied, active,
                 opening, kbTasks, mounted, queue, effects, pool, guard,
                 guardTimers, focusTimers, focused, page>>

PoolIds(p) == {p[k].id : k \in DOMAIN p}
\* the n-th (from 0) identity not carried by a live widget
FreshId(used, n) ==
  CHOOSE x \in Ids \ used : Cardinality({y \in Ids \ used : y < x}) = n

\* mutant of SeedValue: a new widget starts empty
SeedValueBlank(eq, i) == ""

\* (mathField as any).value = equations[i] || ''
SeedValue(eq, i) ==
  IF i + 1 \in 1..Len(eq) /\ eq[i + 1] # UNDEF THEN eq[i + 1] ELSE ""

\* mutant of GrowPool: for (i = currentCount; i <= targetCount; i++)
GrowPoolOneMore(p, eq) ==
  LET cur == Cardinality(DOMAIN p)
      new == cur..Len(eq)
  IN  [k \in DOMAIN p \cup new |->
         IF k \in new
           THEN [id |-> FreshId(PoolIds(p), k - cur), index |-> k,
                 label |-> k + 1, value |-> SeedValue(eq, k),
                 lenBlocked |-> Len(eq) <= minLines]
           ELSE p[k]]

\* mutant of GrowPool: the new record stores index: i + 1
GrowPoolOneBased(p, eq) ==
  LET cur == Cardinality(DOMAIN p)
      new == cur..(Min2(Len(eq), MaxLen) - 1)
  IN  [k \in DOMAIN p \cup new |->
         IF k \in new
           THEN [id |-> FreshId(PoolIds(p), k - cur), index |-> k + 1,
                 label |-> k + 1, value |-> SeedValue(eq, k),
                 lenBlocked |-> Len(eq) <= minLines]
           ELSE p[k]]

\* targetCount > currentCount: for (i = currentCount; i < targetCount; i++)
GrowPool(p, eq) ==
  LET cur == Cardinality(DOMAIN p)
      new == cur..(Len(eq) - 1)
  IN  [k \in DOMAIN p \cup new |->
         IF k \in new
           THEN [id |-> FreshId(PoolIds(p), k - cur), index |-> k,
                 label |-> k + 1, value |-> SeedValue(eq, k),
                 lenBlocked |-> Len(eq) <= minLines]
           ELSE p[k]]

\* mutant of ShrinkPool: the leading records are deleted, the rest renumbered
ShrinkPoolFront(p, eq) ==
  LET cur == Cardinality(DOMAIN p)
      tgt == Len(eq)
      left == DOMAIN p \ (0..(cur - tgt - 1))
      rank(k) == Cardinality({j \in left : j < k})
      at(n) == CHOOSE k \in left : rank(k) = n
  IN  [n \in {rank(k) : k \in left} |->
         [p[at(n)] EXCEPT !.index = n, !.label = n + 1]]

\* mutant of ShrinkPool: every key is set to the first remaining record
ShrinkPoolAlias(p, eq) ==
  LET cur == Cardinality(DOMAIN p)
      tgt == Len(eq)
      left == DOMAIN p \ (tgt..(cur - 1))
      rank(k) == Cardinality({j \in left : j < k})
      kept == {k \in left : rank(k) < tgt}
      at(n) == CHOOSE k \in kept : rank(k) = 0
  IN  [n \in {rank(k) : k \in kept} |->
         [p[at(n)] EXCEPT !.index = n, !.label = n + 1]]

\* targetCount < currentCount: delete keys currentCount-1 .. targetCount,
\* then sort what is left by key, keep the first targetCount and renumber
ShrinkPool(p, eq) ==
  LET cur == Cardinality(DOMAIN p)
      tgt == Len(eq)
      left == DOMAIN p \ (tgt..(cur - 1))
      rank(k) == Cardinality({j \in left : j < k})
      kept == {k \in left : rank(k) < tgt}
      at(n) == CHOOSE k \in kept : rank(k) = n
  IN  [n \in {rank(k) : k \in kept} |->
         [p[at(n)] EXCEPT !.index = n, !.label = n + 1]]

\* fieldRefsRef.current.forEach((fieldRef, index) => textContent = index + 1)
Relabel(p) == [k \in DOMAIN p |-> [p[k] EXCEPT !.label = k + 1]]

\* mutant of Reconciled: the branch that removes fields is missing
ReconciledGrowOnly(p, eq) ==
  Relabel(IF Len(eq) > Cardinality(DOMAIN p) THEN GrowPool(p, eq) ELSE p)

\* the body of the effect "Create or remove fields when count changes"
Reconciled(p, eq) ==
  LET cur == Cardinality(DOMAIN p)
  IN  Relabel(IF Len(eq) > cur THEN GrowPool(p, eq)
              ELSE IF Len(eq) < cur THEN ShrinkPool(p, eq)
              ELSE p)

RunReconcile ==
  /\ "reconcile" \in effects
  /\ pool' = Reconciled(pool, equations)
  /\ hist' = [EffectHist("Reconcile") EXCEPT !.pool0 = pool]
  /\ focused' = IF focused \in PoolIds(pool') THEN focused ELSE 0
  /\ AfterEffect("reconcile")
  /\ UNCHANGED <<equations, initialEquations, minLines, supplied, active,
                 opening, kbTasks, mounted, queue, guard, guardTimers,
                 focusTimers, page>>

\* the body of the effect "Update field values only when changed externally"
Synced(p, eq) ==
  [k \in DOMAIN p |->
     IF k + 1 \in 1..Len(eq) /\ eq[k + 1] # UNDEF /\ p[k].value # eq[k + 1]
       THEN [p[k] EXCEPT !.value = eq[k + 1]]
       ELSE p[k]]

\* mutant of GuardedSync: the guard is not read
UnguardedSync(p, eq) == Synced(p, eq)

\* if (isUpdatingFromInputRef.current) return;
GuardedSync(p, eq) == IF guard THEN p ELSE Synced(p, eq)

RunValueSync ==
  /\ "reconcile" \notin effects
  /\ "valueSync" \in effects
  /\ pool' = GuardedSync(pool, equations)
  /\ AfterEffect("valueSync")
  /\ hist' = EffectHist("ValueSync")
  /\ UNCHANGED <<equations, initialEquations, minLines, supplied, active,
                 opening, kbTasks, mounted, queue, guard, guardTimers,
                 focusTimers, focused, page>>

\* the body of the effect "Sync with external changes to initialEquations"
RunInitSync ==
  /\ effects = {"initSync"}
  /\ queue' = IF initialEquations[1].list # equations
                THEN Append(queue, SetOf(Normalise(initialEquations[1].list),
                                         initialEquations[1].own))
                ELSE queue
  /\ initialEquations' = <<>>
  /\ AfterEffect("initSync")
  /\ hist' = EffectHist("InitSync")
  /\ UNCHANGED <<equations, minLines, supplied, active, opening, kbTasks,
                 mounted, pool, guard, guardTimers, focusTimers, focused,
                 page>>

\* ---------------------------------------------------------------- system
\* the list, the pool and the guard
Next ==
  \/ \E k \in 0..(MaxLen - 1), v \in Typed : InputEvent(k, v, FALSE)
  \/ \E k \in 0..(MaxLen - 1), mod \in BOOLEAN : EnterKey(k, mod, FALSE)
  \/ \E k \in 0..(MaxLen - 1) : BackspaceKey(k, FALSE)
  \/ ClearGuard
  \/ \E v \in HostLists : HostRender(v)
  \/ Render
  \/ RunReconcile
  \/ RunValueSync
  \/ RunInitSync
  \/ TaskEnd

Spec == Init /\ [][Next]_vars

\* the same editor with its deferred focus tasks, under a host that only
\* hands back what onChange gave it and a user who types no macro
NextFocus ==
  \/ \E k \in 0..(MaxLen - 1), v \in Plain : InputEvent(k, v, TRUE)
  \/ \E k \in 0..(MaxLen - 1), mod \in BOOLEAN : EnterKey(k, mod, TRUE)
  \/ \E k \in 0..(MaxLen - 1) : BackspaceKey(k, TRUE)
  \/ ClearGuard
  \/ FocusTimer
  \/ Render
  \/ RunReconcile
  \/ RunValueSync
  \/ RunInitSync
  \/ TaskEnd

SpecFocus == Init /\ [][NextFocus]_vars

\* the editor under a host that sets its list by itself, the prop followed
NextHost ==
  \/ \E k \in 0..(MaxLen - 1), v \in Plain : InputEvent(k, v, FALSE)
  \/ \E k \in 0..(MaxLen - 1), mod \in BOOLEAN : EnterKey(k, mod, FALSE)
  \/ \E k \in 0..(MaxLen - 1) : BackspaceKey(k, FALSE)
  \/ ClearGuard
  \/ \E v \in HostLists : HostSupply(v)
  \/ RenderSupplied
  \/ RunReconcile
  \/ RunValueSync
  \/ RunInitSync
  \/ TaskEnd

SpecHost == Init /\ [][NextHost]_vars

\* the editor under a user who only types, with the scheduling the browser
\* and React guarantee: a task that has started runs to its end, scheduled
\* renders and effects do run, and a timer that is due fires between two
\* tasks however many input events there are
NextGuard ==
  \/ \E k \in 0..(MaxLen - 1), v \in Typed : InputEvent(k, v, FALSE)
  \/ ClearGuard
  \/ Render
  \/ RunReconcile
  \/ RunValueSync
  \/ RunInitSync
  \/ TaskEnd

SpecGuardFair ==
  /\ Init
  /\ [][NextGuard]_vars
  /\ SF_vars(ClearGuard)
  /\ WF_vars(Render)
  /\ WF_vars(RunReconcile)
  /\ WF_vars(RunValueSync)
  /\ WF_vars(RunInitSync)
  /\ WF_vars(TaskEnd)

\* the mounted editor, its lines clicked and the on-screen keyboard toggled
NextKeyboard ==
  \/ \E k \in 0..(MaxLen - 1) : Click(k)
  \/ BlurEvent
  \/ \E k \in 0..(MaxLen - 1), visible \in BOOLEAN : KeyboardToggle(k, visible)
  \/ \E k \in 0..(MaxLen - 1) : ToggleMouseDown(k)
  \/ \E n \in 1..(MaxTimers + 1) : AnimationFrame(n)
  \/ \E n \in 1..(MaxTimers + 1) : ClearOpening(n)
  \/ Render
  \/ RunReconcile
  \/ RunValueSync
  \/ RunInitSync
  \/ TaskEnd

SpecKeyboard == Init /\ [][NextKeyboard]_vars

\* the validating host page: work changes, its timer and its requests
NextValidation ==
  \/ \E w \in WorkLists : HandleWorkChange(w)
  \/ \E tooSoon \in BOOLEAN : ValidationTimer(tooSoon)
  \/ \E n \in 1..MaxRequests, ok \in BOOLEAN : ProblemSettled(n, ok)
  \/ \E n \in 1..MaxRequests, ok \in BOOLEAN : AnswerSettled(n, ok)

SpecValidation == Init /\ [][NextValidation]_vars

\* SpecKeyboard with the scheduling the browser and React guarantee: a task
\* that has started runs to its end, scheduled renders and effects do run,
\* and an animation-frame callback or a timer that is due is run.  Nothing is
\* assumed of the events (clicks, blurs, keyboard toggles) the listeners get.
SpecKeyboardFair ==
  /\ SpecKeyboard
  /\ SF_vars(\E n \in 1..(MaxTimers + 1) : AnimationFrame(n))
  /\ SF_vars(\E n \in 1..(MaxTimers + 1) : ClearOpening(n))
  /\ WF_vars(Render)
  /\ WF_vars(RunReconcile)
  /\ WF_vars(RunValueSync)
  /\ WF_vars(RunInitSync)
  /\ WF_vars(TaskEnd)

\* the editor with its deferred tasks, unmounted at some point: user events
\* and renders need the mounted editor, timers fire all the same
NextTeardown ==
  \/ mounted /\ \E k \in 0..(MaxLen - 1), v \in Plain : InputEvent(k, v, TRUE)
  \/ mounted /\ \E k \in 0..(MaxLen - 1), mod \in BOOLEAN : EnterKey(k, mod, TRUE)
  \/ mounted /\ \E k \in 0..(MaxLen - 1) : BackspaceKey(k, TRUE)
  \/ Unmount
  \/ ClearGuard
  \/ FocusTimer
  \/ Render
  \/ RunReconcile
  \/ RunValueSync
  \/ RunInitSync
  \/ TaskEnd

SpecTeardown == Init /\ [][NextTeardown]_vars

\* the editor with its deferred focus tasks under a user who only presses
\* Enter and Backspace, with the scheduling the browser and React guarantee:
\* a task that has started runs to its end, a scheduled render and the
\* effects of a commit do run, and a timer that is due fires between two
\* tasks however many other tasks there are
NextFocusKeys ==
  \/ \E k \in 0..(MaxLen - 1), mod \in BOOLEAN : EnterKey(k, mod, TRUE)
  \/ \E k \in 0..(MaxLen - 1) : BackspaceKey(k, TRUE)
  \/ FocusTimer
  \/ Render
  \/ RunReconcile
  \/ RunValueSync
  \/ RunInitSync
  \/ TaskEnd

SpecFocusFair ==
  /\ Init
  /\ [][NextFocusKeys]_vars
  /\ SF_vars(FocusTimer)
  /\ WF_vars(Render)
  /\ WF_vars(RunReconcile)
  /\ WF_vars(RunValueSync)
  /\ WF_vars(RunInitSync)
  /\ WF_vars(TaskEnd)

\* the editor of the whiteboard page: mounted under <StrictMode>, development
\* build, the host only hands back what onChange gave it
NextStrict ==
  \/ \E k \in 0..(MaxLen - 1), v \in Typed : InputEvent(k, v, FALSE)
  \/ \E k \in 0..(MaxLen - 1), mod \in BOOLEAN : EnterKey(k, mod, FALSE)
  \/ \E k \in 0..(MaxLen - 1) : BackspaceKey(k, FALSE)
  \/ ClearGuard
  \/ \E twice \in BOOLEAN : StrictRender(twice)
  \/ RunReconcile
  \/ RunValueSync
  \/ RunInitSync
  \/ TaskEnd

SpecStrict == Init /\ [][NextStrict]_vars

\* ================================================================ claims
Last(q) == q[Len(q)]
\* the render that followed a listener ran that listener's update and no other
SoleUpdate(ev) ==
  /\ phase = "post"
  /\ hist.ev = ev
  /\ Len(hist.applied) = 1

\* pool.size == expressionList.length and pool[i].index == i for every i
PoolMatchesList ==
  /\ Cardinality(Keys) = Len(equations)
  /\ \A i \in 0..(Len(equations) - 1) : i \in Keys /\ pool[i].index = i

\* C1: after every pass of the reconciliation effect the pool holds exactly
\* equations.length records under the keys 0..N-1, and the record under key i
\* has index i and shows the ordinal i + 1.
C1_ReconciledPool ==
  hist.step = "Reconcile" =>
    /\ Cardinality(Keys) = Len(equations)
    /\ Keys = 0..(Len(equations) - 1)
    /\ \A i \in Keys : pool[i].index = i /\ pool[i].label = i + 1

\* a pass that removed the last of three records after a Backspace removal
C1_Witness ==
  /\ hist.step = "Reconcile"
  /\ hist.ev = "Backspace"
  /\ Cardinality(DOMAIN hist.pool0) = 3
  /\ Len(equations) = 2

\* C2 as stated, for the states after the mount: in every reachable state,
\* the states between a change of the list's length and the next
\* reconciliation pass included, the pool size equals the length of the list
\* and pool[i].index == i.
C2_PoolMatchesAlways == hist.step # "Mount" => PoolMatchesList

\* C2 amended: the pool matches the list in every state except between a
\* commit that changed the length of the list (or the mount) and the
\* reconciliation pass that follows it.
C2_PoolMatchesUnlessPending == "reconcile" \notin effects => PoolMatchesList

\* an Enter insert is queued and not rendered yet; the pool still matches
C2_Witness ==
  /\ hist.step = "Event"
  /\ hist.ev = "Enter"
  /\ phase = "pre"
  /\ "reconcile" \notin effects
  /\ Len(equations) = 2

\* the list the claim gives for Enter at index i of L
InsertResult(L, i) ==
  SubSeq(L, 1, i + 1) \o <<"">> \o SubSeq(L, i + 2, Len(L))

\* C3: Enter without Shift, Ctrl or Meta on the widget at index i < len(L)
\* turns L into L[0..i] ++ [""] ++ L[i+1..]; Enter with one of them held
\* queues nothing, so the list stays as it is.
C3_InsertResult ==
  /\ \A n \in DOMAIN hist.applied :
       LET e == hist.applied[n]
       IN  (e.upd.kind = "insert" /\ e.upd.index < Len(e.prev))
             => e.result = InsertResult(e.prev, e.upd.index)
  /\ (hist.step \in {"Render", "HostRender"} /\ hist.applied # <<>>)
       => equations = Last(hist.applied).result
  /\ (hist.step = "Event" /\ hist.ev = "Enter")
       => queue = Append(hist.q0, InsOf(pool[hist.idx].index))
  /\ (hist.step = "Event" /\ hist.ev = "EnterModified") => queue = hist.q0

\* Enter at index 0 of ["", "a"] was rendered: the list is ["", "", "a"]
C3_Witness ==
  /\ hist.step = "Render"
  /\ hist.ev = "Enter"
  /\ Len(hist.applied) = 1
  /\ hist.applied[1].upd.index = 0
  /\ hist.applied[1].prev = <<"", "a">>
  /\ equations = <<"", "", "a">>

\* C4 as stated: after Enter at index i and the reconciliation that follows,
\* every record that was at a position j > i is at j + 1 with index j + 1, and
\* the record at i + 1 is a new widget.
C4_RecordsShiftDown ==
  SoleUpdate("Enter") /\ hist.step = "Reconcile" =>
    LET i == hist.applied[1].upd.index
    IN  /\ \A j \in DOMAIN hist.pool0 :
             j > i => /\ j + 1 \in Keys
                      /\ pool[j + 1].id = hist.pool0[j].id
                      /\ pool[j + 1].index = j + 1
        /\ i + 1 \in Keys
        /\ pool[i + 1].id \notin PoolIds(hist.pool0)

\* C4 amended: after Enter at index i and the reconciliation that follows, no
\* record moves: the record that was at position j is still at j with index
\* j, and the one new widget is the record at the last position (the old
\* length of the list), seeded with the last element of the new list.
C4_RecordsStayNewLast ==
  SoleUpdate("Enter") /\ hist.step = "Reconcile" =>
    LET old == DOMAIN hist.pool0
        n == Cardinality(old)
    IN  /\ \A j \in old : j \in Keys /\ pool[j].id = hist.pool0[j].id
        /\ \A j \in Keys : pool[j].index = j
        /\ Keys \ old = {n}
        /\ n = Len(hist.applied[1].prev)
        /\ pool[n].id \notin PoolIds(hist.pool0)
        /\ pool[n].value = SeedValue(equations, n)

\* Enter at index 0 of a two-line list, reconciled
C4_Witness ==
  /\ SoleUpdate("Enter")
  /\ hist.step = "Reconcile"
  /\ hist.applied[1].upd.index = 0
  /\ Cardinality(DOMAIN hist.pool0) = 2
  /\ Cardinality(Keys) = 3

\* the list the claim gives for a removal at index i of L
RemoveResult(L, i) ==
  [j \in 1..(Len(L) - 1) |-> IF j <= i THEN L[j] ELSE L[j + 1]]

\* C5: Backspace on the widget at index i, minLines <= i < len(L), whose value
\* is the empty string turns L into L without element i, and the length test
\* of removeEquation never stops such a removal; Backspace on a widget whose
\* value is not empty queues nothing.
C5_RemoveResult ==
  /\ \A n \in DOMAIN hist.applied :
       LET e == hist.applied[n]
       IN  e.upd.kind = "remove" =>
             /\ e.upd.index >= minLines
             /\ e.upd.index < Len(e.prev)
                  => e.result = RemoveResult(e.prev, e.upd.index)
  /\ hist.ev # "BackspaceBlocked"
  /\ (hist.step = "Event" /\ hist.ev = "Backspace")
       => queue = Append(hist.q0, RemOf(pool[hist.idx].index))
  /\ (hist.step = "Event" /\ hist.ev = "BackspaceNonEmpty") => queue = hist.q0

\* Backspace at index 1 of ["a", "", "a"] with minLines = 1 was rendered
C5_Witness ==
  /\ hist.step = "Render"
  /\ hist.ev = "Backspace"
  /\ minLines = 1
  /\ Len(hist.applied) = 1
  /\ hist.applied[1].upd.index = 1
  /\ hist.applied[1].prev = <<"a", "", "a">>
  /\ equations = <<"a", "a">>

\* the removal was the only update and hit a line of the list
SoleRemoval ==
  /\ SoleUpdate("Backspace")
  /\ hist.step = "Reconcile"
  /\ hist.applied[1].upd.index < Len(hist.applied[1].prev)

\* C6 as stated: after a Backspace removal at index i and the reconciliation
\* that follows, the record destroyed is the one that was at index i, and
\* every record that was at j > i survives with index j - 1.
C6_RemovedRecordDestroyed ==
  SoleRemoval =>
    LET i == hist.applied[1].upd.index
    IN  /\ PoolIds(hist.pool0) \ PoolIds(pool) = {hist.pool0[i].id}
        /\ \A j \in DOMAIN hist.pool0 :
             j > i => /\ j - 1 \in Keys
                      /\ pool[j - 1].id = hist.pool0[j].id
                      /\ pool[j - 1].index = j - 1

\* C6 amended: after a Backspace removal at index i and the reconciliation
\* that follows, the record destroyed is the one at the last position, and
\* every other record survives at its position j with index j.
C6_LastRecordDestroyed ==
  SoleRemoval =>
    LET old == DOMAIN hist.pool0
        last == Cardinality(old) - 1
    IN  /\ Keys = old \ {last}
        /\ PoolIds(hist.pool0) \ PoolIds(pool) = {hist.pool0[last].id}
        /\ \A j \in Keys : pool[j].id = hist.pool0[j].id /\ pool[j].index = j

\* Backspace at index 1 of a three-line list, reconciled
C6_Witness ==
  /\ SoleRemoval
  /\ hist.applied[1].upd.index = 1
  /\ Cardinality(DOMAIN hist.pool0) = 3
  /\ Cardinality(Keys) = 2

\* C7: Backspace on an empty widget whose index is below minLines is not
\* intercepted: it queues no update (so the list stays and onChange is not
\* called) and schedules no focus task; a Backspace that is intercepted is
\* one on a widget at or above minLines.
C7_FloorIsNoOp ==
  /\ (hist.step = "Event" /\ hist.ev = "BackspaceFloor")
       => queue = hist.q0 /\ focusTimers = hist.ft0 /\ phase = "done"
  /\ (hist.step = "Event" /\ hist.ev \in {"Backspace", "BackspaceBlocked"})
       => pool[hist.idx].index >= minLines

\* [""] with minLines = 1, Backspace at index 0
C7_Witness ==
  /\ hist.step = "Event"
  /\ hist.ev = "BackspaceFloor"
  /\ minLines = 1
  /\ equations = <<"">>
  /\ Keys = {0}

\* C8: the list is never shorter than minLines (every list the host of this
\* model supplies is, once seeded, at least minLines long).
C8_LengthFloor == Len(equations) >= minLines

\* a Backspace removal brought the list down to minLines = 1 lines
C8_Witness ==
  /\ hist.step = "Render"
  /\ hist.ev = "Backspace"
  /\ minLines = 1
  /\ Len(equations) = 1

\* C9: while the guard flag is set, no step other than the user's own typing
\* changes the value a widget shows (so nothing writes the list of before the
\* edit back into it).
C9_NoWriteWhileGuarded ==
  [][(guard /\ hist'.step # "Event") =>
       \A k \in Keys \cap DOMAIN pool' :
         pool'[k].id = pool[k].id => pool'[k].value = pool[k].value]_vars

\* the value effect ran with the guard set and left a widget that differs
\* from its list element
C9_Witness ==
  /\ hist.step = "ValueSync"
  /\ guard
  /\ \E k \in Keys :
       /\ k < Len(equations)
       /\ equations[k + 1] # UNDEF
       /\ equations[k + 1] # pool[k].value

\* C10: a list the host sets itself (a reset) is applied whenever it arrives:
\* after the effects of the render that took it, the list is that value and
\* every widget shows its element.
C10_ResetAlwaysShown ==
  (hist.step = "ValueSync" /\ hist.applied # <<>>
     /\ Last(hist.applied).upd.kind = "set")
    => /\ equations = Last(hist.applied).upd.list
       /\ \A k \in Keys :
            k < Len(equations) => pool[k].value = equations[k + 1]

\* C11: every value edit and every structural edit makes the render that
\* applies it call onChange exactly once, with the list that results from the
\* edit: the calls of a render are the results of its edit updaters, one each,
\* in order (and a render without an edit calls nothing).
C11_OnChangeOncePerEdit ==
  hist.step \in {"Render", "HostRender"} =>
    LET em == Emitted(hist.applied)
    IN  /\ Len(hist.calls) = Len(em)
        /\ \A n \in 1..Len(em) : hist.calls[n] = em[n].result

\* C12: the focus task scheduled by an intercepted Enter at index i does run,
\* and when it has run the widget at position i + 1 holds the focus, provided
\* the pool has a record at i + 1 then.
C12_FocusAfterEnter ==
  \A i \in 0..(MaxLen - 1) :
    (focusTimers # <<>> /\ Head(focusTimers) = AfterEnter(i))
      ~> (/\ hist.step = "FocusTimer"
          /\ hist.ev = "enter"
          /\ hist.idx = i
          /\ (i + 1 \in Keys => focused = pool[i + 1].id))

\* the task of an Enter at index 0 has run and the new second line has focus
C12_Witness ==
  /\ hist.step = "FocusTimer"
  /\ hist.ev = "enter"
  /\ hist.idx = 0
  /\ 1 \in Keys
  /\ focused = pool[1].id
  /\ Len(equations) = 2

\* the position max(i - 1, 0)
Before(i) == IF i > 0 THEN i - 1 ELSE 0

\* C13 as stated: when the focus task of an intercepted Backspace at index i
\* has run, the widget at position max(i - 1, 0) of the pool holds the focus.
C13_FocusAfterRemoval ==
  (hist.step = "FocusTimer" /\ hist.ev = "backspace") =>
    /\ Before(hist.idx) \in Keys
    /\ focused = pool[Before(hist.idx)].id

\* C13 amended: when the focus task of an intercepted Backspace at index i has
\* run, the widget at position max(i - 1, 0) of the pool as it is then holds
\* the focus, provided the pool has a record at that position; when it has
\* none (the list was emptied with minLines = 0, or was shortened again before
\* the task ran) the task gives focus to no widget.
C13_FocusAfterRemovalIfPresent ==
  (hist.step = "FocusTimer" /\ hist.ev = "backspace") =>
    (Before(hist.idx) \in Keys => focused = pool[Before(hist.idx)].id)

\* the task of a Backspace at index 1 has run and the first line has focus
C13_Witness ==
  /\ hist.step = "FocusTimer"
  /\ hist.ev = "backspace"
  /\ hist.idx = 1
  /\ Keys = {0}
  /\ focused = pool[0].id

\* the widgets of a pool with the index each record stores
Widgets(p) == {<<p[k].id, p[k].index>> : k \in DOMAIN p}

\* C14: when the host sets an initialEquations value equal to the one it set
\* last and the editor has applied, no step of the second application creates
\* a widget, destroys a widget, changes a record's index or changes the list.
C14_SecondApplicationIdle ==
  [][(supplied' # <<>> /\ supplied'[1].again)
       => (Widgets(pool') = Widgets(pool) /\ equations' = equations)]_vars

\* the host has set [] a second time, the effect has called setEquations([''])
\* and that update was rendered
C14_Witness ==
  /\ supplied # <<>>
  /\ supplied[1].again
  /\ supplied[1].list = <<>>
  /\ hist.step = "Render"
  /\ Len(hist.applied) = 1
  /\ hist.applied[1].upd.kind = "set"
  /\ Keys = {0}

\* the list the editor shows for an initialEquations value
Shown(list) == IF list = <<>> THEN <<"">> ELSE list

\* C15: on mount the list is initialEquations; when the effect keyed on
\* initialEquations finds the prop different from the list it sets the list to
\* the prop, and the render of that call replaces the list by it; in both
\* cases [""] stands for an empty initialEquations.
C15_SeedAndReset ==
  [][/\ hist.step = "Mount" => equations = Shown(initialEquations[1].list)
     /\ (hist'.step = "InitSync" /\ initialEquations[1].list # equations)
          => /\ queue' = Append(queue, Last(queue'))
             /\ Last(queue').kind \in {"set", "echo"}
             /\ Last(queue').list = Shown(initialEquations[1].list)
     /\ hist'.step \in {"Render", "HostRender"}
          => /\ \A n \in 1..Len(hist'.applied) :
                  hist'.applied[n].upd.kind \in {"set", "echo"}
                    => hist'.applied[n].result = hist'.applied[n].upd.list
             /\ (hist'.applied # <<>>
                   /\ Last(hist'.applied).upd.kind \in {"set", "echo"})
                  => equations' = Last(hist'.applied).upd.list]_vars

\* the list ["a", "", "a"] was replaced by the list ["", "a"] the host had set
C15_Witness ==
  /\ hist.step = "Render"
  /\ hist.applied # <<>>
  /\ Last(hist.applied).upd.kind = "set"
  /\ Last(hist.applied).prev = <<"a", "", "a">>
  /\ equations = <<"", "a">>
  /\ supplied # <<>>
  /\ supplied[1].list = <<"", "a">>

\* the line j has the active colours in the pool p with the active set act
ActiveLine(p, act, j) == j \in DOMAIN p /\ p[j].id \in act

\* C16: a step that opens the on-screen keyboard for the line i (the toggle
\* event with isVisible, mousedown on the toggle control) leaves the active
\* state of every other line as it was, and a blur of the line i while its
\* keyboard-opening flag is set leaves the line i active.
C16_OverlayKeepsActive ==
  [][/\ (\/ hist'.step = "ToggleMouseDown"
          \/ (hist'.step = "KeyboardToggle" /\ hist'.ev = "visible"))
          => \A j \in Keys \ {hist'.idx} :
               ActiveLine(pool', active', j) = ActiveLine(pool, active, j)
     /\ (focused # 0 /\ focused' # focused
           /\ focused \in opening /\ focused \in active)
          => focused \in active']_vars

\* C17: once the editor is unmounted the pool holds no line record (every
\* widget was destroyed and every listener detached with the unmount).
C17_UnmountEmptiesPool == ~mounted => pool = <<>>

\* C18: a deferred task that fires after the unmount acts on no widget: a
\* focus task that has run on the unmounted editor found no record at its
\* target position, so it called focus() on nothing.
C18_NoFocusAfterUnmount ==
  (~mounted /\ hist.step = "FocusTimer")
    => TargetOf([kind |-> hist.ev, index |-> hist.idx]) \notin Keys

\* the updates of a sequence of queued or applied calls that insert or remove
\* a line
Structural(kinds) == {n \in DOMAIN kinds : kinds[n] \in {"insert", "remove"}}

\* C19: when a deferred focus task runs, no insertion or removal is waiting to
\* be rendered and none was rendered without the pool having been reconciled
\* since: the reconciliation of the edit that scheduled the task (of every
\* edit made so far) is complete.
C19_ReconciledBeforeFocus ==
  [][hist'.step = "FocusTimer"
       => /\ Structural([n \in DOMAIN queue |-> queue[n].kind]) = {}
          /\ "reconcile" \in effects
               => Structural([n \in DOMAIN hist.applied |->
                                hist.applied[n].upd.kind]) = {}
          /\ "reconcile" \notin effects
               => Cardinality(Keys) = Len(equations)]_vars

\* the focus task of a Backspace at index 2 has run on the pool of two lines
\* that the removal left
C19_Witness ==
  /\ hist.step = "FocusTimer"
  /\ hist.ev = "backspace"
  /\ hist.idx = 2
  /\ Keys = {0, 1}
  /\ Len(equations) = 2
  /\ focused = pool[1].id

\* C20: a deferred focus task that finds no record at its target position
\* changes nothing: the focus, the list, the pool and the queued updates are
\* what they were, and the task ends like any other.
C20_MissingTargetNoOp ==
  [][(hist'.step = "FocusTimer" /\ TargetOf(Head(focusTimers)) \notin Keys)
       => /\ focused' = focused
          /\ equations' = equations
          /\ pool' = pool
          /\ queue' = queue
          /\ focusTimers' = Tail(focusTimers)]_vars

\* Enter on line 2 of two lines, then Backspace on the new third line before
\* the focus task of the Enter ran: the task found no record at position 2
C20_Witness ==
  /\ hist.step = "FocusTimer"
  /\ hist.ev = "enter"
  /\ hist.idx = 1
  /\ Keys = {0, 1}
  /\ focused # 0

\* the widget instance at the position q of the pool p
IdAt(p, q) == p[q].id

C22_InputFrame ==
  hist.step \in {"Render", "HostRender"} =>
    \A n \in 1..Len(hist.applied) :
      LET e == hist.applied[n]
      IN  e.upd.kind = "update" =>
            /\ Len(e.result) = Len(e.prev)
            /\ e.upd.index + 1 \in 1..Len(e.result)
            /\ e.result[e.upd.index + 1] = e.upd.value
            /\ \A q \in 1..Len(e.prev) :
                 q # e.upd.index + 1 => e.result[q] = e.prev[q]

\* C23: the guard is raised by the listener of an input event only and always
\* with a clearing task pending; a raised guard is eventually cleared; and
\* without an input event a cleared guard stays cleared.
C23_GuardLifetime ==
  /\ [][(guard' /\ ~guard) => (hist'.step = "Event" /\ hist'.ev = "Input")]_vars
  /\ [](guard => guardTimers > 0)
  /\ (guard ~> ~guard)

\* the clearing task of an input of "a" into the first line has run
C23_Witness ==
  /\ hist.step = "ClearGuard"
  /\ ~guard
  /\ guardTimers = 0
  /\ 0 \in Keys
  /\ pool[0].value = "a"
  /\ equations[1] = "a"

\* C24: a keyboard-opening flag that is set, by the toggle event with
\* isVisible or by mousedown on the toggle control, is eventually cleared.
C24_OpeningFlagClears ==
  \A id \in Ids : (id \in opening) ~> (id \notin opening)

\* C25: no widget instance is held by two line records of the pool.
C25_NoAliasing ==
  \A k1 \in Keys : \A k2 \in Keys : k1 # k2 => IdAt(pool, k1) # IdAt(pool, k2)

\* the shrink branch has rebuilt the map: three records became two
C25_Witness ==
  /\ hist.step = "Reconcile"
  /\ DOMAIN hist.pool0 = {0, 1, 2}
  /\ Keys = {0, 1}
  /\ IdAt(pool, 0) = IdAt(hist.pool0, 0)
  /\ IdAt(pool, 1) = IdAt(hist.pool0, 1)

\* nothing of the editor is pending: no update, no effect, no timer, and the
\* guard is down
Quiescent ==
  /\ phase = "idle"
  /\ queue = <<>>
  /\ effects = {}
  /\ ~guard
  /\ guardTimers = 0
  /\ focusTimers = <<>>

\* C26: when nothing is pending, the pool has one widget per line and every
\* widget shows its list element.
C26_DisplayAtQuiescence ==
  Quiescent =>
    /\ Keys = 0..(Len(equations) - 1)
    /\ \A k \in Keys : pool[k].value = equations[k + 1]

\* C27: at most one line of the editor shows the active colours.
C27_SingleActiveLine ==
  Cardinality({k \in Keys : ActiveLine(pool, active, k)}) <= 1

\* C28: the list has at least one element in every reachable state, whatever
\* minLines and initialEquations are.
C28_ListNotEmpty == Len(equations) >= 1

\* C29: at most one validateProblem request is in flight; the flag is set
\* exactly while a validateWork call awaits a response, so a call made while
\* it is set sends nothing and the end of a call, resolved or thrown, clears
\* it.
C29_SingleInFlight ==
  /\ Len(page.requests) <= 1
  /\ page.inProgress <=> page.requests # <<>>
  /\ page.last = "busy" => page.requests # <<>>
  /\ page.last = "threw" => ~page.inProgress

\* a call made while a request was in flight returned without sending
C29_Witness ==
  /\ page.last = "busy"
  /\ page.inProgress
  /\ Len(page.requests) = 1

\* C30: answer feedback that is shown was given for the work as it is now:
\* after a change of the work has cleared it, no validateWork call started
\* for the work of before sets it.
C30_NoStaleFeedback ==
  page.feedback # <<>> => page.feedback[1] = NonEmpty(page.work)

====
